---- MODULE Spec2Model ----
(***************************************************************************)
(* A model of micrologger.core.Logger: the level gate, the console sink,  *)
(* and the file sink with its size-triggered rotation and its             *)
(* read-whole-array / append / rewrite-whole-array persistence.           *)
(*                                                                         *)
(* The file system holds two paths, file_name and file_name + ".old".     *)
(* A file's content is a sequence of lexical tokens, so that ujson.dump   *)
(* and ujson.load are real conversions between token sequences and        *)
(* values.  Every I/O call may fail: a call draws the I/O step that fails  *)
(* in it (if any), and that step raises OSError when it is reached; a     *)
(* failing open leaves the file as it was.  Other programs may overwrite  *)
(* or remove the log file between two calls.                              *)
(*                                                                         *)
(* Spec is the Logger called by one thread, with I/O failures and foreign  *)
(* writes.  ThreadSpec is two threads inside _log at once.  RetentionSpec  *)
(* is the Logger with a maximum size in runs without any failure.          *)
(***************************************************************************)
EXTENDS Integers, Sequences, FiniteSets, TLC

VARIABLES
    pc,              \* "init": fields assigned, file not yet initialised; "ready"; "raised": __init__ raised
    current_level,   \* self.current_level
    log_to_console,  \* self.log_to_console
    log_to_file,     \* self.log_to_file
    file_name,       \* self.file_name
    max_file_size,   \* self.max_file_size
    use_colors,      \* self.use_colors
    log_format,      \* self.log_format
    file,            \* the file at file_name
    old,             \* the file at file_name + ".old"
    out,             \* the lines the latest call printed, in order
    last,            \* the latest call: what it was given and what happened in it
    accepted,        \* history: <<level, message>> of the emits written since a clean initialisation
    clean,           \* history: no I/O failure, rotation or foreign write since the file was initialised
    intact,          \* history: the file's content is what the logger's latest completed write left
    unopened,        \* history: __init__ failed to create the log file and nothing has created it since
    history,         \* history: <<level, message>> of every emit written, for the runs without failure
    threads          \* for the concurrent calls: each thread's place in _log and its local variables

vars == <<pc, current_level, log_to_console, log_to_file, file_name, max_file_size,
          use_colors, log_format, file, old, out, last, accepted, clean, intact,
          unopened, history, threads>>

config == <<log_to_console, log_to_file, file_name, max_file_size, use_colors, log_format>>

(***************************************************************************)
(* Bounds of the exploration.                                              *)
(***************************************************************************)
\* an emit is explored only while the log file holds fewer records than this
MaxRecords == 2

\* the runs without failure are explored up to this many written records
MaxEmits == 4

(***************************************************************************)
(* Levels and colours.                                                     *)
(***************************************************************************)
LevelNames == {"DEBUG", "INFO", "WARNING", "ERROR", "CRITICAL", "TRACE"}

\* TRACE ranked with DEBUG
LEVELS_trace_as_debug ==
    [l \in LevelNames |->
        CASE l = "DEBUG" -> 0
          [] l = "INFO" -> 1
          [] l = "WARNING" -> 2
          [] l = "ERROR" -> 3
          [] l = "CRITICAL" -> 4
          [] l = "TRACE" -> 0]

LEVELS ==
    [l \in LevelNames |->
        CASE l = "DEBUG" -> 0
          [] l = "INFO" -> 1
          [] l = "WARNING" -> 2
          [] l = "ERROR" -> 3
          [] l = "CRITICAL" -> 4
          [] l = "TRACE" -> -1]

COLORS ==
    [l \in LevelNames \cup {"RESET"} |->
        CASE l = "DEBUG" -> "\\033[94m"
          [] l = "INFO" -> "\\033[92m"
          [] l = "WARNING" -> "\\033[93m"
          [] l = "ERROR" -> "\\033[91m"
          [] l = "CRITICAL" -> "\\033[41m"
          [] l = "TRACE" -> "\\033[37m"
          [] l = "RESET" -> "\\033[0m"]

\* float("inf"): above every rank of LEVELS
Infinity == 5

\* LEVELS.get(..., 1): the rank an unknown name falls back to
DefaultRank == 1

(***************************************************************************)
(* str.upper() on a name given as its sequence of characters.              *)
(***************************************************************************)
Lower == <<"a","b","c","d","e","f","g","h","i","j","k","l","m",
           "n","o","p","q","r","s","t","u","v","w","x","y","z">>
Upper == <<"A","B","C","D","E","F","G","H","I","J","K","L","M",
           "N","O","P","Q","R","S","T","U","V","W","X","Y","Z">>

UpperChar(c) ==
    IF \E i \in 1..Len(Lower) : Lower[i] = c
    THEN Upper[CHOOSE i \in 1..Len(Lower) : Lower[i] = c]
    ELSE c

RECURSIVE Join(_)
Join(cs) == IF cs = <<>> THEN "" ELSE Head(cs) \o Join(Tail(cs))

upper(name) == Join([i \in 1..Len(name) |-> UpperChar(name[i])])

\* the lookup without upper(): only the upper-case spelling is found
LookupLevel_exact(name) ==
    IF Join(name) \in DOMAIN LEVELS THEN LEVELS[Join(name)] ELSE DefaultRank

\* self.LEVELS.get(level.upper(), 1)
LookupLevel(name) ==
    IF upper(name) \in DOMAIN LEVELS THEN LEVELS[upper(name)] ELSE DefaultRank

\* the level names a caller passes to the constructor and to set_level
NameInputs ==
    { <<"I","N","F","O">>, <<"d","e","b","u","g">>, <<"W","a","r","n","i","n","g">>,
      <<"E","R","R","O","R">>, <<"c","r","i","t","i","c","a","l">>,
      <<"T","r","a","c","e">>, <<"v","e","r","b","o","s","e">>, <<>> }

(***************************************************************************)
(* _format_timestamp: time.localtime() as "YYYY-MM-DD HH:MM:SS".           *)
(***************************************************************************)
Pad2(n) == IF n < 10 THEN "0" \o ToString(n) ELSE ToString(n)

Pad4(n) ==
    IF n < 10 THEN "000" \o ToString(n)
    ELSE IF n < 100 THEN "00" \o ToString(n)
    ELSE IF n < 1000 THEN "0" \o ToString(n)
    ELSE ToString(n)

format_timestamp(t) ==
    Pad4(t[1]) \o "-" \o Pad2(t[2]) \o "-" \o Pad2(t[3]) \o " "
        \o Pad2(t[4]) \o ":" \o Pad2(t[5]) \o ":" \o Pad2(t[6])

\* the values time.localtime() returns to the calls explored
Times == { <<2024, 1, 5, 9, 3, 7>> }

\* the messages the calls explored pass
Messages == {"boom"}

(***************************************************************************)
(* JSON values, their tokens, ujson.dump and ujson.load.                   *)
(* A value is a string, a number, a list of values or a dict (its members  *)
(* in insertion order).  A token is a punctuation mark, a string literal,  *)
(* a number literal, or a run of text that is no JSON token at all.        *)
(***************************************************************************)
Str(s) == [t |-> "str", s |-> s, items |-> <<>>]
Num(s) == [t |-> "num", s |-> s, items |-> <<>>]
List(items) == [t |-> "list", s |-> "", items |-> items]
Dict(members) == [t |-> "dict", s |-> "", items |-> members]
NoValue == [t |-> "none", s |-> "", items |-> <<>>]

P(s) == [k |-> "p", s |-> s]
S(s) == [k |-> "s", s |-> s]
N(s) == [k |-> "n", s |-> s]
Raw(s) == [k |-> "raw", s |-> s]

RECURSIVE dump(_), dumpItems(_), dumpMembers(_)
dumpItems(items) ==
    IF items = <<>> THEN <<>>
    ELSE dump(Head(items))
           \o (IF Tail(items) = <<>> THEN <<>> ELSE <<P(",")>> \o dumpItems(Tail(items)))

dumpMembers(ms) ==
    IF ms = <<>> THEN <<>>
    ELSE <<S(Head(ms).k), P(":")>> \o dump(Head(ms).v)
           \o (IF Tail(ms) = <<>> THEN <<>> ELSE <<P(",")>> \o dumpMembers(Tail(ms)))

dump(v) ==
    CASE v.t = "str" -> <<S(v.s)>>
      [] v.t = "num" -> <<N(v.s)>>
      [] v.t = "list" -> <<P("[")>> \o dumpItems(v.items) \o <<P("]")>>
      [] v.t = "dict" -> <<P("{")>> \o dumpMembers(v.items) \o <<P("}")>>

ParseFail == [ok |-> FALSE, val |-> NoValue, next |-> 0]
ParseOk(v, n) == [ok |-> TRUE, val |-> v, next |-> n]

RECURSIVE ParseValue(_, _), ParseItems(_, _, _), ParseMembers(_, _, _)
ParseItems(toks, i, acc) ==
    LET r == ParseValue(toks, i) IN
    IF ~r.ok \/ r.next > Len(toks) THEN ParseFail
    ELSE IF toks[r.next] = P(",") THEN ParseItems(toks, r.next + 1, Append(acc, r.val))
    ELSE IF toks[r.next] = P("]") THEN ParseOk(List(Append(acc, r.val)), r.next + 1)
    ELSE ParseFail

ParseMembers(toks, i, acc) ==
    IF i + 1 > Len(toks) \/ toks[i].k # "s" \/ toks[i + 1] # P(":") THEN ParseFail
    ELSE LET r == ParseValue(toks, i + 2)
             m == [k |-> toks[i].s, v |-> r.val]
         IN  IF ~r.ok \/ r.next > Len(toks) THEN ParseFail
             ELSE IF toks[r.next] = P(",") THEN ParseMembers(toks, r.next + 1, Append(acc, m))
             ELSE IF toks[r.next] = P("}") THEN ParseOk(Dict(Append(acc, m)), r.next + 1)
             ELSE ParseFail

ParseValue(toks, i) ==
    IF i > Len(toks) THEN ParseFail
    ELSE CASE toks[i].k = "s" -> ParseOk(Str(toks[i].s), i + 1)
           [] toks[i].k = "n" -> ParseOk(Num(toks[i].s), i + 1)
           [] toks[i] = P("[") ->
                IF i + 1 <= Len(toks) /\ toks[i + 1] = P("]")
                THEN ParseOk(List(<<>>), i + 2)
                ELSE ParseItems(toks, i + 1, <<>>)
           [] toks[i] = P("{") ->
                IF i + 1 <= Len(toks) /\ toks[i + 1] = P("}")
                THEN ParseOk(Dict(<<>>), i + 2)
                ELSE ParseMembers(toks, i + 1, <<>>)
           [] OTHER -> ParseFail

\* ujson.load: ok = FALSE stands for ValueError
load(toks) ==
    LET r == ParseValue(toks, 1) IN
    IF r.ok /\ r.next = Len(toks) + 1
    THEN [ok |-> TRUE, val |-> r.val]
    ELSE [ok |-> FALSE, val |-> NoValue]

\* the bytes a token takes in the file: a string literal carries its two quotes
TokenSize(tk) == IF tk.k = "s" THEN Len(tk.s) + Len("\"\"") ELSE Len(tk.s)

RECURSIVE Size(_)
Size(data) == IF data = <<>> THEN 0 ELSE TokenSize(Head(data)) + Size(Tail(data))

(***************************************************************************)
(* Files.                                                                  *)
(***************************************************************************)
Absent == [exists |-> FALSE, data |-> <<>>]
Content(data) == [exists |-> TRUE, data |-> data]

\* a failing open leaves an empty file behind
write_file_partial(f, data, fails) ==
    IF fails THEN [file |-> Content(<<>>), err |-> TRUE] ELSE [file |-> Content(data), err |-> FALSE]

\* open(name, "w") and the write that follows; a failing open leaves the file as it was
write_file(f, data, fails) ==
    IF fails THEN [file |-> f, err |-> TRUE] ELSE [file |-> Content(data), err |-> FALSE]

InitLine == Raw("Logger initialized.\n")
RotatedLine == Raw("Log rotated.\n")
InitNotice == "Error initializing log file: OSError"
WriteNotice == "Error writing to log file: OSError"

(***************************************************************************)
(* The record of one call and its console line (_log, lines 90-105).       *)
(***************************************************************************)
HasColor(level) == use_colors /\ level \in DOMAIN COLORS

log_message(level, message, now) ==
    Dict(<< [k |-> "timestamp", v |-> Str(format_timestamp(now))],
            [k |-> "level", v |-> Str(level)],
            [k |-> "message", v |-> Str(message)] >>
         \o (IF HasColor(level) THEN << [k |-> "color", v |-> Str(COLORS[level])] >> ELSE <<>>))

\* the line never wrapped in the colour codes
console_message_plain(level, message, now) ==
    "[" \o format_timestamp(now) \o "][" \o level \o "] " \o message

console_message(level, message, now) ==
    LET plain == "[" \o format_timestamp(now) \o "][" \o level \o "] " \o message IN
    IF HasColor(level) THEN COLORS[level] \o plain \o COLORS["RESET"] ELSE plain

\* a failing file step suppresses the record's line
printed_rollback(line, notice) == IF notice THEN <<WriteNotice>> ELSE line

\* what one call prints: the record's line (when the console sink is on), then the
\* notice of the OSError handler
printed(line, notice) == line \o (IF notice THEN <<WriteNotice>> ELSE <<>>)

\* the gate off by one rank
passes_loose(level) == LEVELS[level] + 1 >= current_level

\* the level gate of _log
passes(level) == LEVELS[level] >= current_level

(***************************************************************************)
(* _rotate_file.  F is the set of I/O steps that fail in this call.  rot   *)
(* says how far the rotation went: "off" (no maximum), "kept" (the size is *)
(* within the maximum), "error" (OSError before the rename), "rotated"     *)
(* (renamed and recreated), "renamed" (renamed, and the recreation failed).*)
(***************************************************************************)
\* the size test the wrong way round
exceeds_inverted(f) == Size(f.data) < max_file_size

\* the size test of _rotate_file
exceeds(f) == Size(f.data) > max_file_size

fresh_content == IF log_format = "json" THEN dump(List(<<>>)) ELSE <<RotatedLine>>

\* a rotation that copies the file to <path>.old and leaves the file as it is
rotate_file_copying(f, o, fault) ==
    IF max_file_size > 0 /\ f.exists /\ fault \notin {"size", "rename"} /\ exceeds(f)
    THEN [file |-> f, old |-> f, rot |-> "rotated", faults |-> {}]
    ELSE [file |-> f, old |-> o, rot |-> IF max_file_size > 0 THEN "kept" ELSE "off",
          faults |-> {}]

rotate_file(f, o, fault) ==
    IF max_file_size > 0
    THEN IF ~f.exists
         THEN [file |-> f, old |-> o, rot |-> "error", faults |-> {}]
         ELSE IF fault = "size"
         THEN [file |-> f, old |-> o, rot |-> "error", faults |-> {fault}]
         ELSE IF exceeds(f)
         THEN IF fault = "rename"
              THEN [file |-> f, old |-> o, rot |-> "error", faults |-> {fault}]
              ELSE LET w == write_file(Absent, fresh_content, fault = "create") IN
                   [file |-> w.file, old |-> f,
                    rot |-> IF w.err THEN "renamed" ELSE "rotated",
                    faults |-> IF w.err THEN {fault} ELSE {}]
         ELSE [file |-> f, old |-> o, rot |-> "kept", faults |-> {}]
    ELSE [file |-> f, old |-> o, rot |-> "off", faults |-> {}]

(***************************************************************************)
(* The read-append-rewrite of _log (lines 109-123).  wr says what became   *)
(* of it: "appended", "recovered" (ValueError, the file rewritten with the *)
(* one record), "read_error" and "write_error" (OSError, caught and        *)
(* printed), "not_list" (the value read has no append: AttributeError) and *)
(* "recover_error" (OSError inside the ValueError handler).                *)
(***************************************************************************)
\* the new record put before the earlier ones
appended_front(items, rec) == <<rec>> \o items

\* logs.append(log_message)
appended(items, rec) == Append(items, rec)

\* the recovery writes the record itself, not a list of it
recovery_bare(rec) == dump(rec)

\* the recovery starts an empty list and drops the record
recovery_empty(rec) == dump(List(<<>>))

\* ujson.dump([log_message], f_write) of the ValueError handler
recovery(rec) == dump(List(<<rec>>))

write_log(f, rec, fault) ==
    IF ~f.exists
    THEN [file |-> f, wr |-> "read_error", raised |-> "none", notice |-> TRUE, faults |-> {}]
    ELSE IF fault = "read"
    THEN [file |-> f, wr |-> "read_error", raised |-> "none", notice |-> TRUE,
          faults |-> {fault}]
    ELSE LET logs == load(f.data) IN
         IF ~logs.ok
         THEN LET w == write_file(f, recovery(rec), fault = "recover") IN
              [file |-> w.file,
               wr |-> IF w.err THEN "recover_error" ELSE "recovered",
               raised |-> IF w.err THEN "OSError" ELSE "none",
               notice |-> FALSE,
               faults |-> IF w.err THEN {fault} ELSE {}]
         ELSE IF logs.val.t # "list"
         THEN [file |-> f, wr |-> "not_list", raised |-> "AttributeError",
               notice |-> FALSE, faults |-> {}]
         ELSE LET w == write_file(f, dump(List(appended(logs.val.items, rec))),
                                  fault = "write") IN
              [file |-> w.file,
               wr |-> IF w.err THEN "write_error" ELSE "appended",
               raised |-> "none",
               notice |-> w.err,
               faults |-> IF w.err THEN {fault} ELSE {}]

(***************************************************************************)
(* The calls.                                                              *)
(***************************************************************************)
NoCall(op) ==
    [op |-> op, level |-> "", message |-> "", now |-> <<>>, name |-> <<>>,
     passed |-> FALSE, rot |-> "none", wr |-> "none", raised |-> "none", faults |-> {}]

\* the I/O step of _log that fails in one call, if any
EmitFaults == {"none", "size", "rename", "create", "read", "write", "recover"}

\* the number of records the log file holds, when it is an array
Records(f) ==
    LET v == load(f.data) IN
    IF f.exists /\ v.ok /\ v.val.t = "list" THEN Len(v.val.items) ELSE 0

\* the constructor's arguments explored.  With the file sink on, the colour flag
\* follows the console flag; all four combinations are explored with it off.
SizeInputs == {0, 50}
FormatInputs == {"json", "text"}

\* the exploration ends where the log file holds MaxRecords records
Bounded == Records(file) < MaxRecords

\* the threads that call _log, and a thread that is not in a call
Threads == {1, 2}

NoThread ==
    [pc |-> "idle", level |-> "", message |-> "", now |-> <<>>,
     logs |-> <<>>, data |-> <<>>, raised |-> "none"]

Init ==
    /\ pc = "init"
    /\ \E name \in NameInputs :
          /\ current_level = LookupLevel(name)
          /\ last = [NoCall("new") EXCEPT !.name = name]
    /\ log_to_console \in BOOLEAN
    /\ log_to_file \in BOOLEAN
    /\ file_name = "log.txt"
    /\ max_file_size \in SizeInputs
    /\ use_colors \in BOOLEAN
    /\ log_to_file => use_colors = log_to_console
    /\ log_format \in FormatInputs
    /\ file = Absent
    /\ old = Absent
    /\ out = <<>>
    /\ accepted = <<>>
    /\ clean = FALSE
    /\ intact = FALSE
    /\ unopened = FALSE
    /\ history = <<>>
    /\ threads = [t \in Threads |-> NoThread]

\* the way the write of __init__ goes
InitFaults == {"none", "init"}

\* __init__, lines 45-56
InitFile(fault) ==
    /\ pc = "init"
    /\ IF log_to_file
       THEN LET data == IF log_format = "json" THEN dump(List(<<>>)) ELSE <<InitLine>>
                w == write_file(file, data, fault = "init")
                escapes == w.err /\ log_format # "json"
            IN  /\ file' = w.file
                /\ pc' = IF escapes THEN "raised" ELSE "ready"
                /\ out' = IF w.err /\ ~escapes THEN <<InitNotice>> ELSE <<>>
                /\ last' = [NoCall("init") EXCEPT
                              !.wr = IF w.err THEN "write_error" ELSE "written",
                              !.raised = IF escapes THEN "OSError" ELSE "none",
                              !.faults = IF w.err THEN {fault} ELSE {}]
                /\ clean' = ~w.err
                /\ intact' = ~w.err
                /\ unopened' = w.err
       ELSE /\ pc' = "ready"
            /\ out' = <<>>
            /\ last' = NoCall("init")
            /\ UNCHANGED <<file, clean, intact, unopened>>
    /\ UNCHANGED <<current_level, config, old, accepted>>

\* set_level
SetLevel(name) ==
    /\ pc = "ready"
    /\ current_level' = LookupLevel(name)
    /\ out' = <<>>
    /\ last' = [NoCall("set_level") EXCEPT !.name = name]
    /\ UNCHANGED <<pc, config, file, old, accepted, clean, intact, unopened>>

\* disabling by raising the minimum to the highest rank
DisableToHighest ==
    /\ pc = "ready"
    /\ current_level' = LEVELS["CRITICAL"]
    /\ out' = <<>>
    /\ last' = NoCall("disable")
    /\ UNCHANGED <<pc, config, file, old, accepted, clean, intact, unopened>>

\* disabling that switches the console sink off as well
Disable_console_off ==
    /\ pc = "ready"
    /\ current_level' = Infinity
    /\ log_to_console' = FALSE
    /\ out' = <<>>
    /\ last' = NoCall("disable")
    /\ UNCHANGED <<pc, log_to_file, file_name, max_file_size, use_colors, log_format,
                   file, old, accepted, clean, intact, unopened>>

\* disable
Disable ==
    /\ pc = "ready"
    /\ current_level' = Infinity
    /\ out' = <<>>
    /\ last' = NoCall("disable")
    /\ UNCHANGED <<pc, config, file, old, accepted, clean, intact, unopened>>

\* a failed rotation ends the call: the read-append-rewrite is not entered
Emit_rotation_blocks(level, message, now, fault) ==
    /\ pc = "ready"
    /\ IF passes(level)
       THEN LET rec == log_message(level, message, now)
                line == IF log_to_console
                        THEN <<console_message(level, message, now)>>
                        ELSE <<>>
                call == [NoCall("emit") EXCEPT !.level = level, !.message = message,
                                               !.now = now, !.passed = TRUE]
            IN  IF log_to_file
                THEN LET r == rotate_file(file, old, fault)
                         w == IF r.faults # {}
                              THEN [file |-> r.file, wr |-> "none", raised |-> "none",
                                    notice |-> FALSE, faults |-> {}]
                              ELSE write_log(r.file, rec, fault)
                     IN  /\ file' = w.file
                         /\ old' = r.old
                         /\ out' = printed(line, w.notice)
                         /\ last' = [call EXCEPT !.rot = r.rot, !.wr = w.wr,
                                                 !.raised = w.raised,
                                                 !.faults = r.faults \cup w.faults]
                         /\ clean' = FALSE
                         /\ accepted' = <<>>
                         /\ intact' = FALSE
                ELSE /\ out' = line
                     /\ last' = call
                     /\ UNCHANGED <<file, old, accepted, clean, intact>>
       ELSE /\ out' = <<>>
            /\ last' = [NoCall("emit") EXCEPT !.level = level, !.message = message,
                                              !.now = now]
            /\ UNCHANGED <<file, old, accepted, clean, intact>>
    /\ UNCHANGED <<pc, current_level, config, unopened>>

\* the read-append-rewrite first and the rotation after it
Emit_append_first(level, message, now, fault) ==
    /\ pc = "ready"
    /\ IF passes(level)
       THEN LET rec == log_message(level, message, now)
                line == IF log_to_console
                        THEN <<console_message(level, message, now)>>
                        ELSE <<>>
                call == [NoCall("emit") EXCEPT !.level = level, !.message = message,
                                               !.now = now, !.passed = TRUE]
            IN  IF log_to_file
                THEN LET w == write_log(file, rec, fault)
                         r == rotate_file(w.file, old, fault)
                         faults == r.faults \cup w.faults
                     IN  /\ file' = r.file
                         /\ old' = r.old
                         /\ out' = printed(line, w.notice)
                         /\ last' = [call EXCEPT !.rot = r.rot, !.wr = w.wr,
                                                 !.raised = w.raised, !.faults = faults]
                         /\ clean' = FALSE
                         /\ accepted' = <<>>
                         /\ intact' = FALSE
                ELSE /\ out' = line
                     /\ last' = call
                     /\ UNCHANGED <<file, old, accepted, clean, intact>>
       ELSE /\ out' = <<>>
            /\ last' = [NoCall("emit") EXCEPT !.level = level, !.message = message,
                                              !.now = now]
            /\ UNCHANGED <<file, old, accepted, clean, intact>>
    /\ UNCHANGED <<pc, current_level, config, unopened>>

\* _log, reached through debug, info, warning, error, critical and trace
Emit(level, message, now, fault) ==
    /\ pc = "ready"
    /\ IF passes(level)
       THEN LET rec == log_message(level, message, now)
                line == IF log_to_console
                        THEN <<console_message(level, message, now)>>
                        ELSE <<>>
                call == [NoCall("emit") EXCEPT !.level = level, !.message = message,
                                               !.now = now, !.passed = TRUE]
            IN  IF log_to_file
                THEN LET r == rotate_file(file, old, fault)
                         w == write_log(r.file, rec, fault)
                         faults == r.faults \cup w.faults
                         plain == faults = {} /\ w.wr = "appended" /\ r.rot \in {"off", "kept"}
                     IN  /\ file' = w.file
                         /\ old' = r.old
                         /\ out' = printed(line, w.notice)
                         /\ last' = [call EXCEPT !.rot = r.rot, !.wr = w.wr,
                                                 !.raised = w.raised, !.faults = faults]
                         /\ clean' = (clean /\ plain)
                         /\ accepted' = IF clean /\ plain
                                        THEN Append(accepted, <<level, message>>)
                                        ELSE <<>>
                         /\ intact' = CASE w.wr \in {"appended", "recovered"} -> TRUE
                                        [] r.rot = "rotated" -> TRUE
                                        [] r.rot = "renamed" -> FALSE
                                        [] OTHER -> intact
                ELSE /\ out' = line
                     /\ last' = call
                     /\ UNCHANGED <<file, old, accepted, clean, intact>>
       ELSE /\ out' = <<>>
            /\ last' = [NoCall("emit") EXCEPT !.level = level, !.message = message,
                                              !.now = now]
            /\ UNCHANGED <<file, old, accepted, clean, intact>>
    /\ UNCHANGED <<pc, current_level, config, unopened>>

(***************************************************************************)
(* Other programs: the log file is overwritten or removed between calls.   *)
(***************************************************************************)
ForeignContents ==
    { <<>>,                \* not JSON: emptied
      <<P("[")>>,          \* not JSON: a truncated array
      dump(Dict(<<>>)),    \* valid JSON, an object
      <<N("5")>> }         \* valid JSON, a number

Overwrite(data) ==
    /\ pc = "ready"
    /\ log_to_file
    /\ file' = Content(data)
    /\ out' = <<>>
    /\ last' = NoCall("overwrite")
    /\ clean' = FALSE
    /\ intact' = FALSE
    /\ unopened' = FALSE
    /\ accepted' = <<>>
    /\ UNCHANGED <<pc, current_level, config, old>>

Remove ==
    /\ pc = "ready"
    /\ log_to_file
    /\ file.exists
    /\ file' = Absent
    /\ out' = <<>>
    /\ last' = NoCall("remove")
    /\ clean' = FALSE
    /\ intact' = FALSE
    /\ accepted' = <<>>
    /\ UNCHANGED <<pc, current_level, config, old, unopened>>

\* the I/O steps a call of this level can reach
FaultsFor(level) == IF passes(level) /\ log_to_file THEN EmitFaults ELSE {"none"}

\* the calls of one thread after another leave the other specifications' variables alone
Serial == UNCHANGED <<history, threads>>

Next ==
    \/ Serial /\ \E fault \in InitFaults : InitFile(fault)
    \/ Serial /\ Bounded /\ \E name \in NameInputs : SetLevel(name)
    \/ Serial /\ Bounded /\ Disable
    \/ Serial /\ Bounded /\ \E level \in LevelNames, message \in Messages, now \in Times :
                     \E fault \in FaultsFor(level) : Emit(level, message, now, fault)
    \/ Serial /\ Bounded /\ \E data \in ForeignContents : Overwrite(data)
    \/ Serial /\ Bounded /\ Remove

Spec == Init /\ [][Next]_vars

(***************************************************************************)
(* Two threads in _log at once, on one Logger built with the JSON format,  *)
(* the file sink on and max_file_size = 0 (so that _rotate_file returns at *)
(* once).  A thread can be preempted between any two I/O calls: the gate   *)
(* and the print, the open-and-load of line 111-112, the open(.., "w") of  *)
(* line 116 or 122 (which empties the file), and the dump of line 117 or   *)
(* 123.  No I/O call fails here.  A file that another thread is in the     *)
(* middle of writing reads as incomplete JSON; the emptied file stands for *)
(* every such content.                                                     *)
(***************************************************************************)
RECURSIVE Fill(_)
Fill(n) == IF n = 0 THEN "" ELSE "?" \o Fill(n - 1)

\* a write that merges its list with the list written meanwhile
overlay_merging(existing, data) ==
    IF load(existing).ok /\ load(existing).val.t = "list"
    THEN dump(List(load(existing).val.items \o load(data).val.items))
    ELSE data

\* a write from offset 0 into a file that was written since this writer emptied it:
\* the bytes beyond the end of the new data stay
overlay(existing, data) ==
    IF Size(data) >= Size(existing)
    THEN data
    ELSE data \o <<Raw(Fill(Size(existing) - Size(data)))>>

ThreadInit ==
    /\ pc = "ready"
    /\ \E name \in NameInputs : current_level = LookupLevel(name)
    /\ log_to_console \in BOOLEAN
    /\ log_to_file = TRUE
    /\ file_name = "log.txt"
    /\ max_file_size = 0
    /\ use_colors = log_to_console
    /\ log_format = "json"
    /\ file = Content(dump(List(<<>>)))
    /\ old = Absent
    /\ out = <<>>
    /\ last = NoCall("init")
    /\ accepted = <<>>
    /\ clean = FALSE
    /\ intact = FALSE
    /\ unopened = FALSE
    /\ history = <<>>
    /\ threads = [t \in Threads |-> NoThread]

\* what the steps of a thread leave alone
ThreadFrame == UNCHANGED <<pc, current_level, config, old, last, accepted, clean, intact,
                           unopened, history>>

\* lines 89-108: the gate, the record, the console line, _rotate_file
ThreadCall(t, level, message, now) ==
    /\ threads[t].pc = "idle"
    /\ LET call == [threads[t] EXCEPT !.level = level, !.message = message, !.now = now] IN
       IF passes(level)
       THEN /\ out' = IF log_to_console
                      THEN Append(out, console_message(level, message, now))
                      ELSE out
            /\ threads' = [threads EXCEPT
                              ![t] = [call EXCEPT !.pc = IF log_to_file
                                                        THEN "read" ELSE "done"]]
       ELSE /\ out' = out
            /\ threads' = [threads EXCEPT ![t] = [call EXCEPT !.pc = "filtered"]]
    /\ UNCHANGED file
    /\ ThreadFrame

\* lines 111-114, and the entry into the ValueError handler
ThreadRead(t) ==
    /\ threads[t].pc = "read"
    /\ LET th == threads[t]
           rec == log_message(th.level, th.message, th.now)
           logs == load(file.data)
       IN  IF ~file.exists
           THEN /\ out' = Append(out, WriteNotice)
                /\ threads' = [threads EXCEPT ![t].pc = "done"]
           ELSE IF ~logs.ok
           THEN /\ out' = out
                /\ threads' = [threads EXCEPT ![t].pc = "open", ![t].logs = <<rec>>,
                                              ![t].data = recovery(rec)]
           ELSE IF logs.val.t # "list"
           THEN /\ out' = out
                /\ threads' = [threads EXCEPT ![t].pc = "done",
                                              ![t].raised = "AttributeError"]
           ELSE /\ out' = out
                /\ threads' = [threads EXCEPT
                                  ![t].pc = "open",
                                  ![t].logs = appended(logs.val.items, rec),
                                  ![t].data = dump(List(appended(logs.val.items, rec)))]
    /\ UNCHANGED file
    /\ ThreadFrame

\* open(self.file_name, "w") of line 116 or 122
ThreadOpen(t) ==
    /\ threads[t].pc = "open"
    /\ file' = Content(<<>>)
    /\ threads' = [threads EXCEPT ![t].pc = "dump"]
    /\ UNCHANGED out
    /\ ThreadFrame

\* ujson.dump of line 117 or 123, and the return
ThreadDump(t) ==
    /\ threads[t].pc = "dump"
    /\ file' = Content(overlay(file.data, threads[t].data))
    /\ threads' = [threads EXCEPT ![t].pc = "done"]
    /\ UNCHANGED out
    /\ ThreadFrame

ThreadNext ==
    \E t \in Threads :
        \/ \E level \in LevelNames, message \in Messages, now \in Times :
              ThreadCall(t, level, message, now)
        \/ ThreadRead(t)
        \/ ThreadOpen(t)
        \/ ThreadDump(t)

ThreadSpec == ThreadInit /\ [][ThreadNext]_vars

(***************************************************************************)
(* The runs without failure: a Logger built with the JSON format, the file *)
(* sink on and a maximum size, whose calls meet no I/O failure and whose   *)
(* files no other program touches.  history records every record written.  *)
(***************************************************************************)
\* the maximum sizes explored: below the size of one record, and between the sizes of
\* one record and of two
RetentionSizes == {50, 100}

RetentionInit ==
    /\ pc = "ready"
    /\ \E name \in NameInputs : current_level = LookupLevel(name)
    /\ log_to_console \in BOOLEAN
    /\ log_to_file = TRUE
    /\ file_name = "log.txt"
    /\ max_file_size \in RetentionSizes
    /\ use_colors = log_to_console
    /\ log_format = "json"
    /\ file = Content(dump(List(<<>>)))
    /\ old = Absent
    /\ out = <<>>
    /\ last = NoCall("init")
    /\ accepted = <<>>
    /\ clean = TRUE
    /\ intact = TRUE
    /\ unopened = FALSE
    /\ history = <<>>
    /\ threads = [t \in Threads |-> NoThread]

RetentionNext ==
    /\ Len(history) < MaxEmits
    /\ \E level \in LevelNames, message \in Messages, now \in Times :
          /\ Emit(level, message, now, "none")
          /\ history' = IF passes(level)
                        THEN Append(history, log_message(level, message, now))
                        ELSE history
    /\ UNCHANGED threads

RetentionSpec == RetentionInit /\ [][RetentionNext]_vars

(***************************************************************************)
(* Properties.                                                             *)
(***************************************************************************)
Ranks == { LEVELS[l] : l \in LevelNames }

IsPrefix(a, b) == Len(a) <= Len(b) /\ SubSeq(b, 1, Len(a)) = a

\* the value a dict holds under a key
Field(obj, key) ==
    LET idx == { i \in DOMAIN obj.items : obj.items[i].k = key } IN
    IF idx = {} THEN NoValue ELSE obj.items[CHOOSE i \in idx : TRUE].v

\* the file holds exactly this JSON value
Holds(f, v) == f.exists /\ load(f.data) = [ok |-> TRUE, val |-> v]

\* the record of the latest call
LastRecord(call) == log_message(call.level, call.message, call.now)

\* C1: an emit whose level ranks below the current minimum has no effect at all: no
\* console line, no rotation check, no <path>.old created or replaced, the log file
\* as it was.
C1_FilteredEmitHasNoEffect ==
    [][ (last'.op = "emit" /\ LEVELS[last'.level] < current_level)
            => /\ out' = <<>>
               /\ last'.rot = "none"
               /\ last'.wr = "none"
               /\ file' = file
               /\ old' = old ]_vars

C1_Witness ==
    /\ last.op = "emit"
    /\ LEVELS[last.level] < current_level
    /\ current_level \in Ranks
    /\ log_to_console /\ log_to_file
    /\ max_file_size > 0
    /\ file.exists /\ Size(file.data) > max_file_size

\* C2: disable puts the minimum above every rank; from then on every emit of every
\* level prints nothing and leaves both files alone, and the minimum stays there until
\* set_level is called; set_level with any name gives a finite rank, and with a finite
\* minimum an emit passes exactly when its rank is at least the minimum.  The minimum
\* is never anything but a rank of LEVELS or the disabled sentinel.
C2_DisabledUntilSetLevel ==
    [][ /\ current_level' \in Ranks \cup {Infinity}
        /\ last'.op = "disable" => current_level' = Infinity
        /\ (current_level = Infinity /\ last'.op = "emit")
              => (out' = <<>> /\ file' = file /\ old' = old /\ ~last'.passed)
        /\ (current_level = Infinity /\ last'.op # "set_level")
              => current_level' = Infinity
        /\ last'.op = "set_level" => current_level' \in Ranks
        /\ (current_level \in Ranks /\ last'.op = "emit")
              => (last'.passed <=> LEVELS[last'.level] >= current_level) ]_vars

C2_Witness ==
    /\ last.op = "emit"
    /\ last.level = "CRITICAL"
    /\ current_level = Infinity
    /\ log_to_console /\ log_to_file
    /\ file.exists

\* C3: JSON round trip: in JSON mode with the file sink on (in particular with the
\* console off), after an initialisation and N emits that passed the gate, with no I/O
\* failure, no rotation and no foreign write, the file parses to a list of exactly N
\* dicts, the i-th carrying the level and the message of the i-th call.
C3_JsonRoundTrip ==
    (pc = "ready" /\ clean /\ log_to_file /\ log_format = "json")
        => LET v == load(file.data) IN
           /\ file.exists
           /\ v.ok
           /\ v.val.t = "list"
           /\ Len(v.val.items) = Len(accepted)
           /\ \A i \in 1..Len(accepted) :
                /\ v.val.items[i].t = "dict"
                /\ Field(v.val.items[i], "level") = Str(accepted[i][1])
                /\ Field(v.val.items[i], "message") = Str(accepted[i][2])

C3_Witness ==
    /\ pc = "ready" /\ clean /\ log_to_file /\ ~log_to_console /\ log_format = "json"
    /\ Len(accepted) = 2
    /\ accepted[1] # accepted[2]

\* C4: rotation in JSON mode: an accepted emit that meets no I/O failure and starts
\* while the file is larger than the maximum K > 0 leaves in <path>.old exactly the
\* content the file had (whatever <path>.old held), and at <path> a list of the one new
\* record; an accepted emit that starts while the size is at most K, or with K = 0,
\* leaves <path>.old alone.
C4_Rotation ==
    [][ (last'.op = "emit" /\ last'.passed /\ log_to_file /\ log_format = "json")
            => /\ (/\ max_file_size > 0
                   /\ file.exists
                   /\ Size(file.data) > max_file_size
                   /\ last'.faults = {})
                     => /\ last'.rot = "rotated"
                        /\ old' = file
                        /\ Holds(file', List(<<LastRecord(last')>>))
               /\ (\/ max_file_size = 0
                   \/ ~file.exists
                   \/ Size(file.data) <= max_file_size)
                     => /\ last'.rot \in {"off", "kept", "error"}
                        /\ old' = old ]_vars

C4_Witness ==
    /\ last.op = "emit" /\ last.passed /\ log_to_file /\ log_format = "json"
    /\ last.rot = "rotated" /\ last.wr = "appended"
    /\ old.exists /\ Records(old) = 1
    /\ Records(file) = 1
    /\ old # file

\* C5: corrupt-file recovery: in JSON mode, an accepted emit that meets no I/O failure
\* and reads a file whose content is not valid JSON returns normally, prints no error
\* notice, and leaves the file a list of the one new record.
C5_CorruptRecovery ==
    [][ (/\ last'.op = "emit" /\ last'.passed /\ log_to_file /\ log_format = "json"
         /\ last'.faults = {}
         /\ last'.rot \in {"off", "kept"}
         /\ file.exists
         /\ ~load(file.data).ok)
            => /\ last'.raised = "none"
               /\ \A i \in DOMAIN out' : out'[i] # WriteNotice
               /\ Holds(file', List(<<LastRecord(last')>>)) ]_vars

C5_Witness ==
    /\ last.op = "emit" /\ last.passed /\ log_to_file /\ log_format = "json"
    /\ last.wr = "recovered"
    /\ last.faults = {}
    /\ log_to_console

\* C6: no emit raises to its caller, whatever the state of the log file and whichever
\* I/O step fails.
C6_EmitNeverRaises == last.op = "emit" => last.raised = "none"

\* C7: when the log file cannot be created, the constructor reports the error and
\* completes, for the JSON format and for the text format alike.
C7_InitFailureNonFatal ==
    (last.op = "init" /\ last.faults # {})
        => (pc = "ready" /\ last.raised = "none" /\ out = <<InitNotice>>)

\* C8: in text format an accepted emit keeps every line the current file holds (the
\* initialisation line, the rotation marker, earlier records), in place and in order,
\* and adds the new record after them.
C8_TextLinesKept ==
    [][ (/\ last'.op = "emit" /\ last'.passed /\ log_to_file /\ log_format = "text"
         /\ last'.faults = {} /\ last'.raised = "none"
         /\ file.exists)
            => LET lines == IF last'.rot = "rotated" THEN <<RotatedLine>> ELSE file.data IN
               /\ IsPrefix(lines, file'.data)
               /\ Len(file'.data) > Len(lines) ]_vars

\* C9: in JSON mode, whenever the content of the log file is what the logger's latest
\* completed write left (the initialisation, a rotation's reset, an append, a
\* recovery), its top-level value is a list, across set_level, disable and emit.
C9_TopLevelIsList ==
    (pc = "ready" /\ log_to_file /\ log_format = "json" /\ intact)
        => (file.exists /\ load(file.data).ok /\ load(file.data).val.t = "list")

C9_Witness ==
    /\ pc = "ready" /\ log_to_file /\ log_format = "json" /\ intact
    /\ last.op = "disable"
    /\ Records(file) = 1

\* C10: with both sinks on, an accepted emit prints the record's line exactly once
\* whether its rotation, read or rewrite succeeds or fails, and an OSError of the read
\* or the rewrite adds the error notice after that line.
C10_ConsoleSurvivesFileFailure ==
    (last.op = "emit" /\ last.passed /\ log_to_console /\ log_to_file)
        => LET line == console_message(last.level, last.message, last.now) IN
           /\ Cardinality({ i \in DOMAIN out : out[i] = line }) = 1
           /\ IF last.wr \in {"read_error", "write_error"}
              THEN out = <<line, WriteNotice>>
              ELSE out = <<line>>

C10_Witness ==
    /\ last.op = "emit" /\ last.passed /\ log_to_console /\ log_to_file
    /\ last.wr = "write_error"
    /\ last.rot = "rotated"
\* C11: with the console sink on, an emit whose rank is at least the current minimum
\* prints exactly one line for its record, "[timestamp][LEVEL] message" with the call's
\* level name and message and a 19-character timestamp, inside the level's colour code
\* and the reset code exactly when use_colors is set; the only other line such a call
\* can print is the notice of a failed file step, after it.
C11_ConsoleLine ==
    (last.op = "emit" /\ LEVELS[last.level] >= current_level /\ log_to_console)
        => LET stamp == format_timestamp(last.now)
               plain == "[" \o stamp \o "][" \o last.level \o "] " \o last.message
               line == IF use_colors
                       THEN COLORS[last.level] \o plain \o COLORS["RESET"]
                       ELSE plain
           IN  /\ Len(stamp) = 19
               /\ Len(out) >= 1
               /\ out[1] = line
               /\ \A i \in 2..Len(out) : out[i] = WriteNotice /\ out[i] # line

C11_Witness ==
    /\ last.op = "emit" /\ LEVELS[last.level] >= current_level /\ log_to_console
    /\ use_colors
    /\ last.level = "TRACE"
    /\ out = <<"\\033[37m[2024-01-05 09:03:07][TRACE] boom\\033[0m">>

\* the letters of the six level names
LevelLetters ==
    [l \in LevelNames |->
        CASE l = "DEBUG" -> <<"D","E","B","U","G">>
          [] l = "INFO" -> <<"I","N","F","O">>
          [] l = "WARNING" -> <<"W","A","R","N","I","N","G">>
          [] l = "ERROR" -> <<"E","R","R","O","R">>
          [] l = "CRITICAL" -> <<"C","R","I","T","I","C","A","L">>
          [] l = "TRACE" -> <<"T","R","A","C","E">>]

\* the name spells level l, each letter in either case
SameName(name, l) ==
    /\ Len(name) = Len(LevelLetters[l])
    /\ \A i \in 1..Len(name) :
          \E k \in 1..Len(Upper) :
              Upper[k] = LevelLetters[l][i] /\ name[i] \in {Upper[k], Lower[k]}

\* C12: the name given to the constructor or to set_level is looked up without regard
\* to letter case: a name that spells one of the six levels gives that level's rank
\* (DEBUG 0, INFO 1, WARNING 2, ERROR 3, CRITICAL 4, TRACE -1), every other name gives
\* rank 1, and in either case nothing is printed and nothing is raised.
C12_LookupTotal ==
    (last.op \in {"new", "set_level"})
        => /\ SameName(last.name, "DEBUG") => current_level = 0
           /\ SameName(last.name, "INFO") => current_level = 1
           /\ SameName(last.name, "WARNING") => current_level = 2
           /\ SameName(last.name, "ERROR") => current_level = 3
           /\ SameName(last.name, "CRITICAL") => current_level = 4
           /\ SameName(last.name, "TRACE") => current_level = -1
           /\ (\A l \in LevelNames : ~SameName(last.name, l)) => current_level = 1
           /\ out = <<>>
           /\ last.raised = "none"
           /\ pc # "raised"

C12_Witness ==
    /\ last.op = "set_level"
    /\ last.name = <<"c","r","i","t","i","c","a","l">>
    /\ current_level = 4
    /\ file.exists

\* the thread's call passed the gate and has returned
Returned(t) == threads[t].pc = "done"

\* the file holds a list in which this thread's record appears
Kept(t) ==
    LET v == load(file.data)
        rec == log_message(threads[t].level, threads[t].message, threads[t].now)
    IN  /\ file.exists /\ v.ok /\ v.val.t = "list"
        /\ \E i \in DOMAIN v.val.items : v.val.items[i] = rec

\* C13: two threads in _log on one Logger (JSON format, file sink on, both calls past
\* the gate) are not kept apart: neither call raises or prints an error notice, each
\* rewrites the whole file from the list it read itself, and so once both have returned
\* the file begins with the array one of them dumped; the file holds two records only
\* if one thread read after the other had dumped.  When both read before either
\* dumped, one record is lost: both calls return without error and the file is a valid
\* list of one record only.
C13_StaleRewrite ==
    (\A t \in Threads : Returned(t))
        => /\ \A t \in Threads : threads[t].raised = "none"
           /\ \A i \in DOMAIN out : out[i] # WriteNotice
           /\ \E t \in Threads : IsPrefix(threads[t].data, file.data)
           /\ Records(file) <= Cardinality(Threads)
           /\ Records(file) = Cardinality(Threads)
                 => \E t \in Threads : Len(threads[t].logs) = Cardinality(Threads)

C13_Witness ==
    /\ \A t \in Threads : Returned(t) /\ threads[t].raised = "none"
    /\ \A i \in DOMAIN out : out[i] # WriteNotice
    /\ threads[1].level = "ERROR" /\ threads[2].level = "WARNING"
    /\ Holds(file, List(<<log_message("WARNING", "boom", <<2024, 1, 5, 9, 3, 7>>)>>))
    /\ ~Kept(1)

\* C14: in an accepted emit with the file sink on, the size check and the rename come
\* before the append and never after it.  When the call meets no I/O failure and does
\* not raise, the file ends with the record just emitted; <path>.old is either what it
\* was or the content the file had when the call began, so it cannot hold that record;
\* and whether the call rotated depends on the size the file had before the append
\* alone, so that a file the append has made larger than the maximum stays in place
\* until the next accepted emit.
C14_RotationBeforeAppend ==
    [][ (/\ last'.op = "emit" /\ last'.passed /\ log_to_file
         /\ file.exists
         /\ last'.faults = {} /\ last'.raised = "none")
            => LET v == load(file'.data) IN
               /\ file'.exists /\ v.ok /\ v.val.t = "list"
               /\ Len(v.val.items) >= 1
               /\ v.val.items[Len(v.val.items)] = LastRecord(last')
               /\ old' \in {old, file}
               /\ IF max_file_size > 0 /\ Size(file.data) > max_file_size
                  THEN old' = file /\ Len(v.val.items) = 1
                  ELSE old' = old ]_vars

C14_Witness ==
    /\ last.op = "emit" /\ last.passed /\ log_to_file
    /\ last.faults = {} /\ last.raised = "none"
    /\ last.rot = "kept" /\ last.wr = "appended"
    /\ max_file_size > 0
    /\ Size(file.data) > max_file_size
    /\ Holds(file, List(<<LastRecord(last)>>))
    /\ ~old.exists

\* the I/O steps of _rotate_file
RotationSteps == {"size", "rename", "create"}

\* C15: an OSError at any step of the rotation (measuring the size, the rename, the
\* creation of the fresh file) is swallowed: the rotation prints nothing and raises
\* nothing, and the call goes on to its read-append-rewrite on the files as the failed
\* rotation left them.  After a failed measure or rename both files are as they were,
\* and the record is appended to the list read (or replaces content that is not JSON);
\* after a failed creation the file is at <path>.old and <path> is missing, so the read
\* fails and that failure is the one reported.
C15_RotationFailureSwallowed ==
    [][ (/\ last'.op = "emit" /\ last'.passed /\ log_to_file
         /\ last'.faults \cap RotationSteps # {})
            => LET rec == LastRecord(last')
                   line == IF log_to_console
                           THEN <<console_message(last'.level, last'.message, last'.now)>>
                           ELSE <<>>
                   was == load(file.data)
               IN  /\ file.exists /\ max_file_size > 0
                   /\ last'.wr # "none"
                   /\ IF "create" \in last'.faults
                      THEN /\ old' = file
                           /\ file' = Absent
                           /\ out' = line \o <<WriteNotice>>
                           /\ last'.raised = "none"
                      ELSE /\ old' = old
                           /\ (was.ok /\ was.val.t = "list")
                                 => /\ Holds(file', List(Append(was.val.items, rec)))
                                    /\ out' = line
                                    /\ last'.raised = "none"
                           /\ ~was.ok
                                 => /\ Holds(file', List(<<rec>>))
                                    /\ out' = line
                                    /\ last'.raised = "none"
                           /\ (was.ok /\ was.val.t # "list")
                                 => /\ file' = file
                                    /\ out' = line ]_vars

C15_Witness ==
    /\ last.op = "emit" /\ last.passed /\ log_to_file /\ log_to_console
    /\ last.faults = {"create"}
    /\ old.exists /\ Records(old) = 1
    /\ ~file.exists
    /\ out = <<console_message(last.level, last.message, last.now), WriteNotice>>

\* C16: after a JSON initialisation that failed, with the log file still missing, the
\* logger neither disables itself nor repairs the sink.  The failed initialisation
\* leaves the minimum as it was; every later emit passes the gate exactly as its rank
\* says; an accepted one prints its console line (if the console is on), enters the
\* file step, prints the file error notice, raises nothing, and leaves the file
\* missing and the minimum and the configuration as they were.
C16_DegradedSink ==
    [][ /\ (last'.op = "init" /\ last'.faults # {}) => current_level' = current_level
        /\ (unopened' /\ log_format' = "json") => (pc' = "ready" /\ ~file'.exists)
        /\ (unopened /\ log_format = "json" /\ last'.op = "emit")
              => /\ last'.passed <=> LEVELS[last'.level] >= current_level
                 /\ current_level' = current_level
                 /\ config' = config
                 /\ last'.passed
                       => LET line == console_message(last'.level, last'.message, last'.now) IN
                          /\ out' = (IF log_to_console THEN <<line>> ELSE <<>>)
                                       \o <<WriteNotice>>
                          /\ last'.wr = "read_error"
                          /\ last'.raised = "none"
                          /\ file' = Absent
                          /\ unopened' ]_vars

C16_Witness ==
    /\ unopened /\ log_format = "json"
    /\ last.op = "emit" /\ last.passed
    /\ log_to_console
    /\ max_file_size > 0
    /\ out = <<console_message(last.level, last.message, last.now), WriteNotice>>
    /\ ~file.exists /\ ~old.exists

\* C17: the configuration is a frame.  From the assignment of the fields in __init__
\* on, no step changes the console flag, the file flag, the file name, the maximum
\* size, the colour flag or the format; the minimum level changes only in set_level
\* and disable, so no emit (filtered, accepted, or failing on I/O) changes it; and
\* disable changes the minimum level and nothing else: it prints nothing and leaves
\* both files as they were.
C17_ConfigFrame ==
    [][ /\ config' = config
        /\ current_level' # current_level => last'.op \in {"set_level", "disable"}
        /\ last'.op = "emit" => current_level' = current_level
        /\ last'.op = "disable"
              => /\ current_level' = Infinity
                 /\ file' = file
                 /\ old' = old
                 /\ out' = <<>>
                 /\ pc' = pc ]_vars

C17_Witness ==
    /\ last.op = "disable"
    /\ current_level = Infinity
    /\ log_to_console /\ log_to_file /\ use_colors
    /\ log_format = "text"
    /\ max_file_size > 0
    /\ file.exists /\ old.exists

\* C18: a trace call passes the gate only while the minimum is below the rank of DEBUG,
\* and otherwise does nothing at all; the minimum is below DEBUG only after a
\* construction or a set_level whose name spells TRACE (in any letter case): not after
\* the default name INFO, any other level name, an unknown name, or disable.
C18_TraceVisibility ==
    /\ current_level < LEVELS["DEBUG"] => SameName(last.name, "TRACE")
    /\ [][ /\ (last'.op = "emit" /\ last'.level = "TRACE")
                => /\ last'.passed <=> current_level < LEVELS["DEBUG"]
                   /\ ~last'.passed => (out' = <<>> /\ file' = file /\ old' = old)
                   /\ (last'.passed /\ log_to_console) => out' # <<>>
           /\ (current_level' < LEVELS["DEBUG"] /\ current_level' # current_level)
                => (last'.op = "set_level" /\ SameName(last'.name, "TRACE"))
           /\ (last'.op = "set_level" /\ ~SameName(last'.name, "TRACE"))
                => current_level' >= LEVELS["DEBUG"]
           /\ last'.op = "disable" => current_level' >= LEVELS["DEBUG"] ]_vars

C18_Witness ==
    /\ last.op = "emit" /\ last.level = "TRACE" /\ last.passed
    /\ current_level = -1
    /\ log_to_file /\ log_format = "json"
    /\ Holds(file, List(<<LastRecord(last)>>))

\* the records a file holds, in order (none when it is missing)
Items(f) == IF f.exists THEN load(f.data).val.items ELSE <<>>

\* the records of <path>.old followed by those of <path>
Retained == Items(old) \o Items(file)

\* C19: in JSON mode with a maximum size K > 0, with no I/O failure and no foreign
\* write, after any sequence of emits both files hold JSON lists, and the records of
\* <path>.old followed by the records of <path> are exactly the latest records written,
\* in call order, none twice and none missing in between: only records older than the
\* latest rotation are gone.  A rotation moves to <path>.old exactly the content the
\* file had, and no other step changes <path>.old.
C19_Retention ==
    /\ [](/\ Holds(file, List(Items(file)))
          /\ old.exists => Holds(old, List(Items(old)))
          /\ Len(Retained) <= Len(history)
          /\ Retained = SubSeq(history, Len(history) - Len(Retained) + 1, Len(history)))
    /\ [][ IF last'.rot = "rotated" THEN old' = file ELSE old' = old ]_vars

C19_Witness ==
    /\ max_file_size = 50
    /\ Len(history) = 3
    /\ Cardinality({ history[i] : i \in 1..3 }) = 3
    /\ Items(old) = <<history[2]>>
    /\ Items(file) = <<history[3]>>

====
